---- MODULE Spec2Model ----
(***************************************************************************)
(* Wolfengate: the per-tile action state machine (domain/control/actions)  *)
(* and the recursive grid projection (domain/topology/projection).         *)
(*                                                                         *)
(* Numbers.  The program computes in f32.  The model computes in exact     *)
(* fixed point: a length, a coordinate or an opening percentage v is the   *)
(* integer v * One, so a tile edge is One and a fully open door is One.    *)
(* All inputs are chosen so that every product and quotient is exact.      *)
(***************************************************************************)
EXTENDS Integers, Sequences, FiniteSets, TLC

VARIABLES
    state,      \* SpecState: one Box<dyn ActionState> under test
    history,    \* SpecState: the calls made on it, each with the state before
    map,        \* Spec: the Map of the level
    actions,    \* Spec: the Actions grid of the level
    frames,     \* Spec: number of mutations of the Actions grid so far
    view,       \* Spec: the arguments of the last project call
    points,     \* Spec: the Vec<ProjectedPoint> the last project call returned
    calls,      \* Spec: number of projection_concat calls it made
    door_call,  \* SpecDoor: the last door_column call and what it returned
    frame,      \* SpecFrame: the phase of the frame and its per-column project calls
    weapon      \* SpecWeapon: the Weapon, the last call made on it and the Weapon before

vars == <<state, history, map, actions, frames, view, points, calls, door_call, frame, weapon>>

(***************************************************************************)
(* Fixed point                                                             *)
(***************************************************************************)
\* the f32 value 1.0
One == 1000

\* actor.rs: microseconds in a second
MicrosPerSecond == 1000000

Half == One \div 2

Abs(n) == IF n < 0 THEN -n ELSE n

\* f32::floor and f32::ceil of a fixed-point number
Floor(n) == (n \div One) * One
Ceil(n) == IF n % One = 0 THEN n ELSE Floor(n) + One

\* f32::signum of a number that is not NaN (signum(+0.0) = 1.0)
Signum(n) == IF n >= 0 THEN 1 ELSE -1

(***************************************************************************)
(* maths.rs                                                                *)
(***************************************************************************)
decimal_part(number) == Abs(number) - Floor(Abs(number))

between_unclamped_above(min, value, max) == IF value < min THEN min ELSE value

between(min, value, max) ==
    IF value < min THEN min
    ELSE IF value > max THEN max
    ELSE value

(***************************************************************************)
(* actor.rs: SpeedStats.  units_per_seconds is a fixed-point number.       *)
(***************************************************************************)
to_units(units_per_seconds, microseconds) ==
    ((microseconds \div (MicrosPerSecond \div One)) * units_per_seconds) \div One

(***************************************************************************)
(* door.rs: the two openable shapes.  None is the record [some |-> FALSE]. *)
(***************************************************************************)
None == [some |-> FALSE, value |-> 0]
Some(v) == [some |-> TRUE, value |-> v]

LateralDoor_door_column_closed_edge(opening_percentage, offset) ==
    IF offset >= One - opening_percentage \/ offset < 0
    THEN None
    ELSE Some(offset + opening_percentage)

\* a lateral door that is see-through on the side it has not yet left
LateralDoor_door_column_wrong_side(opening_percentage, offset) ==
    IF offset > opening_percentage \/ offset < 0
    THEN None
    ELSE Some(offset + opening_percentage)

LateralDoor_door_column(opening_percentage, offset) ==
    IF offset > One - opening_percentage \/ offset < 0
    THEN None
    ELSE Some(offset + opening_percentage)

CentralDoor_door_column_closed_band(opening_percentage, offset) ==
    LET closing_percentage == One - opening_percentage
        new_right == One - (closing_percentage \div 2)
        new_left == 0 + (closing_percentage \div 2)
    IN  IF offset >= new_left /\ offset <= new_right
        THEN None
        ELSE IF offset <= new_left
             THEN Some(offset + opening_percentage \div 2)
             ELSE Some(offset - opening_percentage \div 2)

CentralDoor_door_column_full_shift(opening_percentage, offset) ==
    LET closing_percentage == One - opening_percentage
        new_right == One - (closing_percentage \div 2)
        new_left == 0 + (closing_percentage \div 2)
    IN  IF offset > new_left /\ offset < new_right
        THEN None
        ELSE IF offset <= new_left
             THEN Some(offset + opening_percentage)
             ELSE Some(offset - opening_percentage)

CentralDoor_door_column(opening_percentage, offset) ==
    LET closing_percentage == One - opening_percentage
        new_right == One - (closing_percentage \div 2)
        new_left == 0 + (closing_percentage \div 2)
    IN  IF offset > new_left /\ offset < new_right
        THEN None
        ELSE IF offset <= new_left
             THEN Some(offset + opening_percentage \div 2)
             ELSE Some(offset - opening_percentage \div 2)

door_column(openable, opening_percentage, offset) ==
    IF openable = "Central"
    THEN CentralDoor_door_column(opening_percentage, offset)
    ELSE LateralDoor_door_column(opening_percentage, offset)

(***************************************************************************)
(* actions.rs: the action states                                           *)
(***************************************************************************)
NothingActionState_new == [kind |-> "Nothing"]

LinearActionState_new(opening_speed, openable) ==
    [kind |-> "Linear",
     activated |-> FALSE,
     opening_percentage |-> 0,
     openable |-> openable,
     opening_speed |-> opening_speed]

LinearActionState_elapsed_always_opening(self, microseconds) ==
    [self EXCEPT !.opening_percentage =
        between(0, @ + to_units(self.opening_speed, microseconds), One)]

\* elapsed never letting the door reach either end
LinearActionState_elapsed_stopping_short(self, microseconds) ==
    LET direction == IF self.activated THEN 1 ELSE -1
        increment == to_units(self.opening_speed, microseconds) * direction
    IN  [self EXCEPT !.opening_percentage = between(1, @ + increment, One - 1)]

\* elapsed moving the door by at most a quarter per call
LinearActionState_elapsed_capped_step(self, microseconds) ==
    LET direction == IF self.activated THEN 1 ELSE -1
        units == to_units(self.opening_speed, microseconds)
        increment == (IF units > One \div 4 THEN One \div 4 ELSE units) * direction
    IN  [self EXCEPT !.opening_percentage = between(0, @ + increment, One)]

LinearActionState_elapsed(self, microseconds) ==
    LET direction == IF self.activated THEN 1 ELSE -1
        increment == to_units(self.opening_speed, microseconds) * direction
        new_percentage == between(0, self.opening_percentage + increment, One)
    IN  [kind |-> "Linear",
         opening_speed |-> self.opening_speed,
         activated |-> self.activated,
         openable |-> self.openable,
         opening_percentage |-> new_percentage]

LinearActionState_trigger_snapping(self) ==
    [self EXCEPT !.activated = ~@,
                 !.opening_percentage = IF self.activated THEN One ELSE 0]

LinearActionState_trigger_resetting(self) ==
    [self EXCEPT !.activated = ~@,
                 !.opening_percentage = IF @ = 0 THEN One ELSE @]

LinearActionState_trigger(self) ==
    [kind |-> "Linear",
     opening_speed |-> self.opening_speed,
     activated |-> ~self.activated,
     openable |-> self.openable,
     opening_percentage |-> self.opening_percentage]

\* dynamic dispatch over Box<dyn ActionState>
elapsed(self, microseconds) ==
    IF self.kind = "Linear"
    THEN LinearActionState_elapsed(self, microseconds)
    ELSE NothingActionState_new

trigger(self) ==
    IF self.kind = "Linear"
    THEN LinearActionState_trigger(self)
    ELSE [kind |-> "Nothing"]

openable(self) ==
    IF self.kind = "Linear" THEN self.openable ELSE "Lateral"

activated_percentage_nothing_open(self) ==
    IF self.kind = "Linear" THEN self.opening_percentage ELSE One

activated_percentage(self) ==
    IF self.kind = "Linear" THEN self.opening_percentage ELSE 0

(***************************************************************************)
(* maths.rs: Angle.  An angle is the integer vector (dx, dy) it points     *)
(* along, so tan = dy / dx is exact.  cos_signum and sin_signum are        *)
(* f32::signum of the f32 cosine and sine: for the four cardinal constants *)
(* the component that is 0 in exact arithmetic has the sign the f32        *)
(* computation gives it (cos(PI/2) < 0, sin(PI) < 0, cos(3PI/2) > 0,       *)
(* sin(0) = +0), and its tangent is so large, or so small, that in f32 the *)
(* crossing of the parallel grid lines lies farther than any other         *)
(* crossing and the offset along the other axis is absorbed by rounding.   *)
(***************************************************************************)
Angle_of(dx, dy, cos_signum, sin_signum) ==
    [dx |-> dx, dy |-> dy, cos_signum |-> cos_signum, sin_signum |-> sin_signum]

ANGLE_RIGHT == Angle_of(1, 0, 1, 1)
ANGLE_UP == Angle_of(0, 1, -1, 1)
ANGLE_LEFT == Angle_of(-1, 0, -1, -1)
ANGLE_DOWN == Angle_of(0, -1, 1, -1)

\* Angle::new of an angle that is no multiple of PI/2
Angle_new(dx, dy) == Angle_of(dx, dy, Signum(dx), Signum(dy))

\* a coordinate no finite crossing reaches: f32 infinity, or the huge value
\* a near-vertical tangent produces
Infinity == One * One

IsFinite(n) == Abs(n) < Infinity \div 2

\* a / b for b # 0, rounded down
Quot(a, b) == IF b > 0 THEN a \div b ELSE (-a) \div (-b)

\* angle.tan() * length
tan_times(angle, length) ==
    IF angle.dx = 0
    THEN (IF length = 0 THEN 0
          ELSE Signum(length) * angle.sin_signum * angle.cos_signum * Infinity)
    ELSE Quot(length * angle.dy, angle.dx)

\* length / angle.tan()
over_tan(angle, length) ==
    IF angle.dy = 0
    THEN (IF length = 0 THEN 0
          ELSE Signum(length) * angle.sin_signum * angle.cos_signum * Infinity)
    ELSE Quot(length * angle.dx, angle.dy)

\* angle.add(ANGLE_240).tan() * length: tan(a + 3PI/2) = -1 / tan(a)
tan_240_times(angle, length) ==
    IF angle.dy = 0
    THEN (IF length = 0 THEN 0
          ELSE -(Signum(length) * angle.sin_signum * angle.cos_signum * Infinity))
    ELSE Quot(-(length * angle.dx), angle.dy)

(***************************************************************************)
(* coord.rs: Position and MapPoint                                         *)
(***************************************************************************)
Position_new(x, y) == [x |-> x, y |-> y]
MapPoint_new(x, y) == [x |-> x, y |-> y]

with_x(self, x) == [x |-> x, y |-> self.y]
with_y(self, y) == [x |-> self.x, y |-> y]

\* Vector::length of the vector between two positions, squared: the code
\* only compares lengths, and the square root is monotone
distance(self, position) ==
    IF ~IsFinite(position.x) \/ ~IsFinite(position.y)
    THEN Infinity * One
    ELSE (position.x - self.x) * (position.x - self.x)
           + (position.y - self.y) * (position.y - self.y)

to_map_point(self, direction_x, direction_y) ==
    LET offset_x == IF direction_x >= 0 THEN 0 ELSE 1
        offset_y == IF direction_y >= 0 THEN 0 ELSE 1
    IN  MapPoint_new(Floor(self.x) \div One - offset_x,
                     Floor(self.y) \div One - offset_y)

\* Position::round returning a number already on a grid line as it is
round_never_advancing(number, sign) ==
    IF sign > 0 THEN Ceil(number) ELSE Floor(number)

round(number, sign) ==
    LET rounded == IF sign > 0 THEN Ceil(number) ELSE Floor(number)
    IN  IF rounded = number THEN number + sign * One ELSE rounded

projection_x(self, angle) ==
    LET direction == angle.cos_signum
        next_x == round(self.x, direction)
    IN  with_y(with_x(self, next_x), self.y + tan_times(angle, next_x - self.x))

projection_y(self, angle) ==
    LET direction == angle.sin_signum
        next_y == round(self.y, direction)
    IN  with_y(with_x(self, self.x + over_tan(angle, next_y - self.y)), next_y)

(***************************************************************************)
(* map.rs: Tile, MapConfiguration and Map.  A texture is its TextureIndex. *)
(***************************************************************************)
Tile_SOLID(texture) == [kind |-> "SOLID", texture |-> texture]
Tile_DYNAMIC(texture_inside, texture_outside, state_generator) ==
    [kind |-> "DYNAMIC", texture_inside |-> texture_inside,
     texture_outside |-> texture_outside, state_generator |-> state_generator]
Tile_NOTHING == [kind |-> "NOTHING"]

\* Option::None of paving_at and of state_at
NoTile == [kind |-> "None"]
NoState == [kind |-> "None"]

\* map_test::default_configuration, with one more dynamic tile, "C", whose
\* door opens from the centre (json.rs, opening_mode CENTER)
map_border_texture == 0

char_to_tile(c) ==
    CASE c = "#" -> Tile_SOLID(1)
      [] c = "D" -> Tile_DYNAMIC(2, 4, LinearActionState_new(3 * One, "Lateral"))
      [] c = "C" -> Tile_DYNAMIC(5, 4, LinearActionState_new(3 * One, "Central"))
      [] c = "G" -> Tile_DYNAMIC(3, 4, NothingActionState_new)
      [] OTHER -> Tile_NOTHING

\* Map::new: the lines of the text from top to bottom; y = 0 is the last line
Map_new(paving) ==
    LET height == Len(paving)
        width == Len(paving[1])
    IN  [paving |-> [x \in 0..(width - 1) |->
                        [y \in 0..(height - 1) |-> char_to_tile(paving[height - y][x + 1])]],
         border_texture |-> map_border_texture,
         width |-> width,
         height |-> height]

paving_at(self, x, y) ==
    IF x < 0 \/ y < 0 \/ x >= self.width \/ y >= self.height
    THEN NoTile
    ELSE self.paving[x][y]

(***************************************************************************)
(* actions.rs: Actions, the grid of action states of a map                 *)
(***************************************************************************)
Actions_new_transposed(m) ==
    [paving |-> [x \in 0..(m.width - 1) |->
                    [y \in 0..(m.height - 1) |->
                        LET current_paving == paving_at(m, y, x)
                        IN  IF current_paving.kind = "DYNAMIC"
                            THEN current_paving.state_generator
                            ELSE NothingActionState_new]],
     width |-> m.width,
     height |-> m.height]

Actions_new(m) ==
    [paving |-> [x \in 0..(m.width - 1) |->
                    [y \in 0..(m.height - 1) |->
                        LET current_paving == paving_at(m, x, y)
                        IN  IF current_paving.kind = "DYNAMIC"
                            THEN current_paving.state_generator
                            ELSE NothingActionState_new]],
     width |-> m.width,
     height |-> m.height]

state_at_excluding_zero(self, x, y) ==
    IF x <= 0 \/ y <= 0 \/ x >= self.width \/ y >= self.height
    THEN NoState
    ELSE self.paving[x][y]

state_at(self, x, y) ==
    IF x < 0 \/ y < 0 \/ x >= self.width \/ y >= self.height
    THEN NoState
    ELSE self.paving[x][y]

activate_column(self, x, y) ==
    LET st == state_at(self, x, y)
    IN  IF st # NoState
        THEN [self EXCEPT !.paving[x] = [j \in 0..(self.height - 1) |-> trigger(self.paving[x][j])]]
        ELSE self

activate(self, x, y) ==
    LET st == state_at(self, x, y)
    IN  IF st # NoState
        THEN [self EXCEPT !.paving[x][y] = trigger(st)]
        ELSE self

notify_elapsed_square(self, microseconds) ==
    [self EXCEPT !.paving =
        [x \in 0..(self.width - 1) |->
            [y \in 0..(self.height - 1) |->
                IF x < self.height /\ y < self.width
                THEN elapsed(self.paving[x][y], microseconds)
                ELSE self.paving[x][y]]]]

notify_elapsed(self, microseconds) ==
    [self EXCEPT !.paving =
        [x \in 0..(self.width - 1) |->
            [y \in 0..(self.height - 1) |-> elapsed(self.paving[x][y], microseconds)]]]

(***************************************************************************)
(* projection.rs.  Every function that returns a Vec<Projection> returns   *)
(* here the record [points, calls]: the vector, and the number of          *)
(* projection_concat calls that were made to build it.                     *)
(***************************************************************************)
Projection_new(projected_point, offset_in_bloc, blocking, map_point, texture) ==
    [projected_point |-> projected_point,
     blocking |-> blocking,
     offset_in_bloc |-> offset_in_bloc,
     texture |-> texture,
     map_point |-> map_point]

\* projection_on_door: whether the marker of a dynamic tile blocks
door_blocking_only_when_closed(action_state) == activated_percentage(action_state) = 0

door_blocking(action_state) == activated_percentage(action_state) # One

\* inner_door_projection: how far behind the boundary of its tile a door stands
position_inside_tile_flush == One

position_inside_tile == Half

\* projection_concat: the projection of a ray that leaves the map
out_of_bounds_nothing(next_position, position_on_texture, bloc, m) == <<>>

out_of_bounds(next_position, position_on_texture, bloc, m) ==
    <<Projection_new(next_position, position_on_texture, TRUE, bloc, m.border_texture)>>

position_on_texture_inside_tile_unbounded(door, door_position, current_position, opening_percentage) ==
    door_column(door, opening_percentage, decimal_part(door_position))

position_on_texture_inside_tile(door, door_position, current_position, opening_percentage) ==
    LET right == Ceil(current_position)
        left == Floor(current_position)
    IN  IF door_position > right \/ door_position < left
        THEN None
        ELSE door_column(door, opening_percentage, decimal_part(door_position))

inner_door_projection(current_position, angle, door_up, map_point, texture, action_state) ==
    LET opening_percentage == activated_percentage(action_state)
        door == openable(action_state)
    IN  IF door_up
        THEN LET angle_sign == angle.sin_signum
                 door_x == current_position.x
                             - Quot(tan_240_times(angle, One), 2 * angle_sign)
                 new_position ==
                     with_y(with_x(current_position, door_x),
                            current_position.y + position_inside_tile * angle_sign)
                 on_texture == position_on_texture_inside_tile(
                                   door, door_x, current_position.x, opening_percentage)
             IN  IF on_texture.some
                 THEN Some(Projection_new(new_position, on_texture.value, TRUE,
                                          map_point, texture))
                 ELSE None
        ELSE LET angle_sign == angle.cos_signum
                 door_y == current_position.y
                             + Quot(tan_times(angle, One), 2 * angle_sign)
                 new_position ==
                     with_y(with_x(current_position,
                                   current_position.x + position_inside_tile * angle_sign),
                            door_y)
                 on_texture == position_on_texture_inside_tile(
                                   door, door_y, current_position.y, opening_percentage)
             IN  IF on_texture.some
                 THEN Some(Projection_new(new_position, on_texture.value, TRUE,
                                          map_point, texture))
                 ELSE None

RECURSIVE inner_projection(_, _, _, _)
RECURSIVE projection_concat(_, _, _, _, _)
RECURSIVE projection_on_door(_, _, _, _, _, _, _, _, _)

inner_projection(position, angle, m, a) ==
    projection_concat(position, angle, m, a, <<>>)

projection_on_door(angle, m, a, next_position, position_on_texture, door_up, map_point, texture, blocking_texture) ==
    LET action_state == state_at(a, map_point.x, map_point.y)
        blocking == door_blocking(action_state)
        invisible_wall == <<Projection_new(next_position, position_on_texture, blocking,
                                           map_point, blocking_texture)>>
        struck == inner_door_projection(next_position, angle, door_up, map_point,
                                        texture, action_state)
        actual_door == IF struck.some
                       THEN [points |-> <<struck.value>>, calls |-> 0]
                       ELSE inner_projection(next_position, angle, m, a)
    IN  [points |-> invisible_wall \o actual_door.points, calls |-> actual_door.calls]

projection_concat(position, angle, m, a, previous) ==
    LET direction_x == angle.cos_signum
        direction_y == angle.sin_signum
        next_x_position == projection_x(position, angle)
        next_y_position == projection_y(position, angle)
        distance_to_next_x == distance(position, next_x_position)
        distance_to_next_y == distance(position, next_y_position)
        by_x == distance_to_next_x < distance_to_next_y
        bloc == IF by_x
                THEN to_map_point(next_x_position, direction_x, 0)
                ELSE to_map_point(next_y_position, 0, direction_y)
        position_on_texture == IF by_x
                               THEN decimal_part(next_x_position.y)
                               ELSE decimal_part(next_y_position.x)
        door_up == ~by_x
        next_position == IF by_x THEN next_x_position ELSE next_y_position
        bloc_tile == paving_at(m, bloc.x, bloc.y)
        recursive ==
            CASE bloc_tile.kind = "None" ->
                    [points |-> out_of_bounds(next_position, position_on_texture, bloc, m),
                     calls |-> 0]
              [] bloc_tile.kind = "SOLID" ->
                    [points |-> <<Projection_new(next_position, position_on_texture, TRUE,
                                                 bloc, bloc_tile.texture)>>,
                     calls |-> 0]
              [] bloc_tile.kind = "DYNAMIC" ->
                    LET projection_inside ==
                            projection_on_door(angle, m, a, next_position,
                                               position_on_texture, door_up, bloc,
                                               bloc_tile.texture_inside,
                                               bloc_tile.texture_outside)
                        projection_behind == inner_projection(next_position, angle, m, a)
                    IN  [points |-> projection_inside.points \o projection_behind.points,
                         calls |-> projection_inside.calls + projection_behind.calls]
              [] bloc_tile.kind = "NOTHING" ->
                    inner_projection(next_position, angle, m, a)
    IN  [points |-> previous \o recursive.points, calls |-> 1 + recursive.calls]

ProjectedPoint_new(source_point, projection) ==
    [source_point |-> source_point,
     projected_point |-> projection.projected_point,
     blocking |-> projection.blocking,
     offset_in_bloc |-> projection.offset_in_bloc,
     map_point |-> projection.map_point,
     texture |-> projection.texture]

project(position, angle, m, a) ==
    LET inner == inner_projection(position, angle, m, a)
    IN  [points |-> [i \in 1..Len(inner.points) |->
                        ProjectedPoint_new(position, inner.points[i])],
         calls |-> inner.calls]

\* ProjectedPoint::distance, squared
ProjectedPoint_distance(self) == distance(self.source_point, self.projected_point)

(***************************************************************************)
(* SpecState: one action state, created by its constructor, under any      *)
(* sequence of at most MaxCalls calls of trigger() and elapsed(dt).        *)
(***************************************************************************)
MaxCalls == 4

\* SpeedStats::new(0.5), (1.0) and (3.0), as in the tests
Speeds == {One \div 2, One, 3 * One}

Openables == {"Lateral", "Central"}

\* the elapsed microseconds offered to elapsed()
Durations == {0, 250000, 500000, 1000000, 4000000}

\* no door_column call was made yet
NoDoor == [asked |-> FALSE]

\* no frame is being drawn
NoFrame == [phase |-> "none"]

\* no Weapon was built
NoWeapon == [built |-> FALSE]

LevelIdle ==
    /\ door_call = NoDoor
    /\ frame = NoFrame
    /\ weapon = NoWeapon
    /\ map = <<>>
    /\ actions = <<>>
    /\ frames = 0
    /\ view = <<>>
    /\ points = <<>>
    /\ calls = 0

InitState ==
    /\ state \in {NothingActionState_new}
            \cup {LinearActionState_new(s, o) : s \in Speeds, o \in Openables}
    /\ history = <<>>
    /\ LevelIdle

CallTrigger ==
    /\ Len(history) < MaxCalls
    /\ state' = trigger(state)
    /\ history' = Append(history, [op |-> "trigger", microseconds |-> 0, before |-> state])
    /\ UNCHANGED <<map, actions, frames, view, points, calls, door_call, frame, weapon>>

CallElapsed ==
    /\ Len(history) < MaxCalls
    /\ \E microseconds \in Durations :
        /\ state' = elapsed(state, microseconds)
        /\ history' = Append(history,
                [op |-> "elapsed", microseconds |-> microseconds, before |-> state])
    /\ UNCHANGED <<map, actions, frames, view, points, calls, door_call, frame, weapon>>

NextState == CallTrigger \/ CallElapsed

SpecState == InitState /\ [][NextState]_vars

\* the state a call of the history returned
After(i) == IF i = Len(history) THEN state ELSE history[i + 1].before

\* a duration in thousandths of a second (every duration offered is a whole
\* number of them)
Millis(microseconds) == microseconds \div (MicrosPerSecond \div One)

Min(a, b) == IF a < b THEN a ELSE b
Max(a, b) == IF a > b THEN a ELSE b

\* C1: a Linear state created by LinearActionState::new keeps its
\* opening_percentage within [0, 1] after any sequence of trigger() and
\* elapsed(dt) calls.
C1_PercentageWithinBounds ==
    state.kind = "Linear" =>
        /\ state.opening_percentage >= 0
        /\ state.opening_percentage <= One

\* C1 witness: an opening state was pushed past the end and stands at
\* exactly 1, and it had been pushed below 0 before and had stood at 0.
C1_Witness ==
    /\ state.kind = "Linear"
    /\ Len(history) >= 3
    /\ history[1].op = "elapsed" /\ history[1].microseconds > 0
    /\ After(1).opening_percentage = 0
    /\ history[Len(history)].op = "elapsed"
    /\ history[Len(history)].before.activated
    /\ history[Len(history)].before.opening_percentage
         + to_units(state.opening_speed, history[Len(history)].microseconds) > One
    /\ state.opening_percentage = One

\* C2: new(), trigger(), elapsed(a), trigger(), elapsed(b) with s*a <= 1 and
\* b <= a leaves opening_percentage = s*(a - b): the second trigger reverses
\* from the current percentage and does not snap to an endpoint.
C2_RetriggerReverses ==
    ( /\ state.kind = "Linear"
      /\ Len(history) = 4
      /\ history[1].op = "trigger"
      /\ history[2].op = "elapsed"
      /\ history[3].op = "trigger"
      /\ history[4].op = "elapsed"
      /\ state.opening_speed * Millis(history[2].microseconds) <= One * One
      /\ history[4].microseconds <= history[2].microseconds )
    => state.opening_percentage * One
         = state.opening_speed
             * (Millis(history[2].microseconds) - Millis(history[4].microseconds))

\* C2 witness: the scenario of the test, speed 1/s, 500000 us then 250000 us,
\* ends at 0.25.
C2_Witness ==
    /\ state.kind = "Linear"
    /\ state.opening_speed = One
    /\ Len(history) = 4
    /\ history[1].op = "trigger"
    /\ history[2].op = "elapsed" /\ history[2].microseconds = 500000
    /\ history[3].op = "trigger"
    /\ history[4].op = "elapsed" /\ history[4].microseconds = 250000
    /\ state.opening_percentage = One \div 4

\* C3: elapsed(dt) returns clamp(p + d * speed * dt, 0, 1) with d = +1 when
\* activated and -1 otherwise, and keeps activated, speed and shape.
C3_ElapsedFormula ==
    \A i \in 1..Len(history) :
        (history[i].op = "elapsed" /\ history[i].before.kind = "Linear") =>
            LET b == history[i].before
                a == After(i)
                d == IF b.activated THEN 1 ELSE -1
                raw == b.opening_percentage * One
                         + d * b.opening_speed * Millis(history[i].microseconds)
            IN  /\ a.kind = "Linear"
                /\ a.opening_percentage * One = Max(0, Min(One * One, raw))
                /\ a.activated = b.activated
                /\ a.opening_speed = b.opening_speed
                /\ a.openable = b.openable

\* C3 witness: an elapsed call moved a closing state down to a percentage
\* strictly between 0 and 1.
C3_Witness ==
    \E i \in 1..Len(history) :
        /\ history[i].op = "elapsed"
        /\ history[i].before.kind = "Linear"
        /\ ~history[i].before.activated
        /\ After(i).opening_percentage > 0
        /\ After(i).opening_percentage < history[i].before.opening_percentage

\* C4: trigger() flips activated and leaves opening_percentage, speed and
\* shape as they were; a closed state that is triggered stays at 0.
C4_TriggerFrame ==
    \A i \in 1..Len(history) :
        (history[i].op = "trigger" /\ history[i].before.kind = "Linear") =>
            LET b == history[i].before
                a == After(i)
            IN  /\ a.kind = "Linear"
                /\ a.activated = ~b.activated
                /\ a.opening_percentage = b.opening_percentage
                /\ a.opening_speed = b.opening_speed
                /\ a.openable = b.openable
                /\ (i = 1 => a.opening_percentage = 0)

\* C4 witness: a closed state was triggered first, and a half-open state was
\* triggered later and kept its percentage.
C4_Witness ==
    /\ Len(history) >= 3
    /\ history[1].op = "trigger"
    /\ history[1].before.kind = "Linear"
    /\ After(1).opening_percentage = 0
    /\ history[3].op = "trigger"
    /\ history[3].before.opening_percentage = Half
    /\ After(3).opening_percentage = Half

(***************************************************************************)
(* Spec: a level.  The map is one of Levels; the Actions grid is built     *)
(* from it and mutated by activate and notify_elapsed (at most MaxFrames   *)
(* ticks); project is called from any point of OriginOffsets of any        *)
(* NOTHING tile along any angle of Angles, and its result kept in points.  *)
(***************************************************************************)
MaxFrames == 2

Levels == {
    \* a closed room
    << <<"#", "#", "#">>,
       <<"#", " ", "#">>,
       <<"#", "#", "#">> >>,
    \* no wall at all
    << <<" ", " ", " ">>,
       <<" ", " ", " ">> >>,
    \* a wall one tile away in a map without border walls
    << <<" ", "#", " ">>,
       <<"#", " ", "#">>,
       <<" ", "#", " ">> >>,
    \* doors to the left and to the right, a wall behind each
    << <<"#", "#", "#", "#", "#">>,
       <<"#", "D", " ", "D", "#">>,
       <<"#", "#", "#", "#", "#">> >>,
    \* doors above and below, the border behind each
    << <<"#", "D", "#">>,
       <<"#", " ", "#">>,
       <<"#", "C", "#">> >>,
    \* two doors in a row, then a free tile and the border
    << <<" ", "D", "D", " ">> >>,
    \* glass, then a door, then a wall, bottom to top
    << <<"#">>,
       <<"D">>,
       <<"G">>,
       <<" ">> >>
}

\* the microseconds offered to notify_elapsed: at 3 units per second they
\* open a door by 0.498, by 0.999 and fully
FrameDurations == {166000, 333000, 1000000}

\* where in its tile the origin of a ray lies
OriginOffsets == {One \div 4, Half, 3 * (One \div 4)}

Angles ==
    {ANGLE_RIGHT, ANGLE_UP, ANGLE_LEFT, ANGLE_DOWN}
    \cup {Angle_new(dx, dy) : dx \in {-2, -1, 1, 2}, dy \in {-2, -1, 1, 2}}

NoView == [position |-> Position_new(0, 0), angle |-> ANGLE_RIGHT, asked |-> FALSE]

StateIdle ==
    /\ state = NothingActionState_new
    /\ history = <<>>

Init ==
    /\ \E paving \in Levels : map = Map_new(paving)
    /\ actions = Actions_new(map)
    /\ frames = 0
    /\ view = NoView
    /\ points = <<>>
    /\ calls = 0
    /\ door_call = NoDoor
    /\ frame = NoFrame
    /\ weapon = NoWeapon
    /\ StateIdle

\* the mutation phase of a frame: the player activates a cell
Activate ==
    /\ ~view.asked
    /\ \E x \in (-1)..map.width, y \in (-1)..map.height :
        actions' = activate(actions, x, y)
    /\ view' = NoView
    /\ points' = <<>>
    /\ calls' = 0
    /\ UNCHANGED <<state, history, map, frames, door_call, frame, weapon>>

\* a new frame begins: the time elapsed since the last one is applied
NotifyElapsed ==
    /\ frames < MaxFrames
    /\ \E microseconds \in FrameDurations :
        actions' = notify_elapsed(actions, microseconds)
    /\ frames' = frames + 1
    /\ view' = NoView
    /\ points' = <<>>
    /\ calls' = 0
    /\ UNCHANGED <<state, history, map, door_call, frame, weapon>>

\* the read phase of a frame: one of its project calls; the result is dropped
\* when the next frame begins
Project ==
    /\ ~view.asked
    /\ \E x \in 0..(map.width - 1), y \in 0..(map.height - 1) :
        /\ paving_at(map, x, y).kind = "NOTHING"
        /\ \E ox \in OriginOffsets, oy \in OriginOffsets, angle \in Angles :
            LET position == Position_new(x * One + ox, y * One + oy)
                projected == project(position, angle, map, actions)
            IN  /\ view' = [position |-> position, angle |-> angle, asked |-> TRUE]
                /\ points' = projected.points
                /\ calls' = projected.calls
    /\ UNCHANGED <<state, history, map, actions, frames, door_call, frame, weapon>>

Next == Activate \/ NotifyElapsed \/ Project

Spec == Init /\ [][Next]_vars

(***************************************************************************)
(* The geometry the claims about project are stated in, independent of the *)
(* walk of projection_concat.  A ray is view.position + t * (dx, dy) for   *)
(* t > 0; T below is 2 * t, an integer for every angle of Angles.          *)
(***************************************************************************)
\* 2 * t at which the ray enters and leaves the open strip ]k, k + 1[ of an axis
AxisEnter(o, d, k) ==
    CASE d > 0 -> Quot((k * One - o) * 2, d)
      [] d < 0 -> Quot(((k + 1) * One - o) * 2, d)
      [] OTHER -> IF k * One < o /\ o < (k + 1) * One THEN -Infinity ELSE Infinity

AxisLeave(o, d, k) ==
    CASE d > 0 -> Quot(((k + 1) * One - o) * 2, d)
      [] d < 0 -> Quot((k * One - o) * 2, d)
      [] OTHER -> IF k * One < o /\ o < (k + 1) * One THEN Infinity ELSE -Infinity

RayEnter(v, x, y) ==
    Max(AxisEnter(v.position.x, v.angle.dx, x), AxisEnter(v.position.y, v.angle.dy, y))

RayLeave(v, x, y) ==
    Min(AxisLeave(v.position.x, v.angle.dx, x), AxisLeave(v.position.y, v.angle.dy, y))

\* the tiles whose inside the ray crosses after it has left the tile it starts in,
\* the ring of absent tiles around the map included
Ahead(v) ==
    {t \in [x : (-1)..map.width, y : (-1)..map.height] :
        /\ RayEnter(v, t.x, t.y) < RayLeave(v, t.x, t.y)
        /\ RayEnter(v, t.x, t.y) > 0}

\* the tiles of a set that are not NOTHING
Obstacles(tiles) == {t \in tiles : paving_at(map, t.x, t.y).kind # "NOTHING"}

\* the tile of a non-empty set the ray enters first
Nearest(v, tiles) ==
    CHOOSE t \in tiles : \A u \in tiles : RayEnter(v, t.x, t.y) <= RayEnter(v, u.x, u.y)

\* where the ray enters a tile, and the point s * One / 2 further along a
\* ray parallel to an axis
EntryPoint(v, t) ==
    Position_new(v.position.x + (RayEnter(v, t.x, t.y) * v.angle.dx) \div 2,
                 v.position.y + (RayEnter(v, t.x, t.y) * v.angle.dy) \div 2)

IsTerminal(t) == paving_at(map, t.x, t.y).kind \in {"SOLID", "None"}

TerminalTexture(t) ==
    IF paving_at(map, t.x, t.y).kind = "SOLID"
    THEN paving_at(map, t.x, t.y).texture
    ELSE map.border_texture

Tile(p) == paving_at(map, p.map_point.x, p.map_point.y)

IsMarker(p) == Tile(p).kind = "DYNAMIC" /\ p.texture = Tile(p).texture_outside

Percentage(p) == activated_percentage(state_at(actions, p.map_point.x, p.map_point.y))

\* C5: the marker point of a dynamic tile blocks if and only if the action
\* state of the tile is not at exactly 1.0, and a ray whose first point lies on
\* a dynamic tile starts with that marker.
C5_MarkerBlocksUnlessFullyOpen ==
    view.asked =>
        /\ \A i \in 1..Len(points) :
              IsMarker(points[i]) => (points[i].blocking <=> Percentage(points[i]) # One)
        /\ Tile(points[1]).kind = "DYNAMIC" => IsMarker(points[1])

\* C5 witness: one ray met the marker of a fully open door, which does not
\* block, and the marker of a door open at 0.999, which blocks.
C5_Witness ==
    /\ view.asked
    /\ \E i \in 1..Len(points) :
          IsMarker(points[i]) /\ Percentage(points[i]) = One /\ ~points[i].blocking
    /\ \E i \in 1..Len(points) :
          IsMarker(points[i]) /\ Percentage(points[i]) = One - 1 /\ points[i].blocking

\* C6: project returns at least one point, and the last point of a ray that met
\* no SOLID tile lies outside the map and carries the border texture.
C6_NonEmpty ==
    view.asked =>
        /\ Len(points) >= 1
        /\ (\A i \in 1..Len(points) : Tile(points[i]).kind # "SOLID") =>
              /\ Tile(points[Len(points)]).kind = "None"
              /\ points[Len(points)].texture = map.border_texture

\* C6 witness: a ray crossed two NOTHING tiles and left the map.
C6_Witness ==
    /\ view.asked
    /\ Len(points) = 1
    /\ Tile(points[1]).kind = "None"
    /\ points[1].texture = map.border_texture
    /\ Cardinality(Ahead(view)) >= 3

\* C7: the points project returns are ordered from the nearest to the
\* farthest.
C7_NearestToFarthest ==
    view.asked =>
        \A i \in 1..(Len(points) - 1) :
            ProjectedPoint_distance(points[i]) <= ProjectedPoint_distance(points[i + 1])

\* C8: a project call makes at most one projection step for each grid line of
\* the map, of which there are width + 1 + height + 1.
C8_LinearSteps ==
    view.asked => calls <= map.width + map.height + 2

\* C9: when the first tile on the ray that is not NOTHING is SOLID or outside
\* the map, project returns exactly one point, at the place where the ray
\* enters that tile, blocking, with its texture, and with it as map_point.
C9_SingleWall ==
    (view.asked /\ IsTerminal(Nearest(view, Obstacles(Ahead(view))))) =>
        LET wall == Nearest(view, Obstacles(Ahead(view)))
        IN  /\ Len(points) = 1
            /\ points[1].projected_point = EntryPoint(view, wall)
            /\ points[1].blocking
            /\ points[1].texture = TerminalTexture(wall)
            /\ points[1].map_point = MapPoint_new(wall.x, wall.y)

IsCardinal(angle) == angle.dx = 0 \/ angle.dy = 0

\* C10: a ray parallel to an axis whose first obstacle is a closed dynamic
\* tile and whose next obstacle is a SOLID tile or the border gives exactly
\* three points: the marker where it enters the tile, the door half a tile
\* further, and the terminal point behind the door.
C10_ClosedDoorThreePoints ==
    LET obstacles == Obstacles(Ahead(view))
        door == Nearest(view, obstacles)
        behind == {t \in obstacles :
                      RayEnter(view, t.x, t.y) > RayEnter(view, door.x, door.y)}
        wall == Nearest(view, behind)
        entry == EntryPoint(view, door)
    IN  ( /\ view.asked
          /\ IsCardinal(view.angle)
          /\ paving_at(map, door.x, door.y).kind = "DYNAMIC"
          /\ activated_percentage(state_at(actions, door.x, door.y)) = 0
          /\ IsTerminal(wall) )
        => /\ Len(points) = 3
           /\ points[1].projected_point = entry
           /\ points[1].texture = paving_at(map, door.x, door.y).texture_outside
           /\ points[1].map_point = MapPoint_new(door.x, door.y)
           /\ points[2].projected_point =
                 Position_new(entry.x + Half * view.angle.dx, entry.y + Half * view.angle.dy)
           /\ points[2].texture = paving_at(map, door.x, door.y).texture_inside
           /\ points[2].blocking
           /\ points[2].map_point = MapPoint_new(door.x, door.y)
           /\ points[3].projected_point = EntryPoint(view, wall)
           /\ points[3].blocking
           /\ points[3].texture = TerminalTexture(wall)
           /\ points[3].map_point = MapPoint_new(wall.x, wall.y)

\* the case of C10 for one direction: a closed dynamic tile met first, a
\* terminal tile behind it, and the three points returned
C10_Case(angle) ==
    /\ view.asked
    /\ view.angle = angle
    /\ Len(points) = 3
    /\ IsMarker(points[1])
    /\ Percentage(points[1]) = 0
    /\ points[2].map_point = points[1].map_point
    /\ points[2].texture = Tile(points[2]).texture_inside
    /\ ProjectedPoint_distance(points[2]) > ProjectedPoint_distance(points[1])
    /\ Tile(points[3]).kind \in {"SOLID", "None"}

\* C10 witness: a ray going left met a closed door with a SOLID tile behind
\* it and three points came back.
C10_Witness == C10_Case(ANGLE_LEFT) /\ Tile(points[3]).kind = "SOLID"

(***************************************************************************)
(* A door passed by: the ray enters a dynamic tile through one side, away  *)
(* from the corners, and leaves the tile before it is half a tile deep.    *)
(***************************************************************************)
\* 2 * t the ray needs from the side of a tile to the door plane of the tile
PlaneAhead(v, t) ==
    IF AxisEnter(v.position.x, v.angle.dx, t.x) > AxisEnter(v.position.y, v.angle.dy, t.y)
    THEN One \div Abs(v.angle.dx)
    ELSE One \div Abs(v.angle.dy)

PassedBy(v) ==
    {t \in [x : 0..(map.width - 1), y : 0..(map.height - 1)] :
        /\ paving_at(map, t.x, t.y).kind = "DYNAMIC"
        /\ RayEnter(v, t.x, t.y) < RayLeave(v, t.x, t.y)
        /\ RayEnter(v, t.x, t.y) > 0
        /\ AxisEnter(v.position.x, v.angle.dx, t.x) # AxisEnter(v.position.y, v.angle.dy, t.y)
        /\ RayLeave(v, t.x, t.y) < RayEnter(v, t.x, t.y) + PlaneAhead(v, t)}

\* the map and the Actions of the same level with NOTHING at one cell
WithoutDoor(m, t) == [m EXCEPT !.paving[t.x][t.y] = Tile_NOTHING]

Last(seq) == seq[Len(seq)]

\* C11: a dynamic tile the ray passes by adds no door point, and the wall
\* the ray finally hits is reported at the same place, at the same distance
\* and with the same texture as in the map that has NOTHING at that cell.
C11_PassedDoorLeavesWallUnchanged ==
    view.asked =>
        \A t \in PassedBy(view) :
            LET without == project(view.position, view.angle, WithoutDoor(map, t),
                                   Actions_new(WithoutDoor(map, t))).points
            IN  /\ \A i \in 1..Len(points) :
                      points[i].map_point = MapPoint_new(t.x, t.y)
                          => points[i].texture = paving_at(map, t.x, t.y).texture_outside
                /\ ProjectedPoint_distance(Last(points))
                      = ProjectedPoint_distance(Last(without))
                /\ Last(points) = Last(without)

\* C11 witness: a ray passed by a closed door and hit a SOLID tile behind it:
\* the marker of the door, then the wall.
C11_Witness ==
    /\ view.asked
    /\ PassedBy(view) # {}
    /\ Len(points) >= 2
    /\ IsMarker(points[1])
    /\ Percentage(points[1]) = 0
    /\ MapPoint_new(points[1].map_point.x, points[1].map_point.y)
          \in {MapPoint_new(t.x, t.y) : t \in PassedBy(view)}
    /\ Tile(points[2]).kind = "SOLID"
    /\ Tile(Last(points)).kind = "SOLID"

(***************************************************************************)
(* SpecDoor: door_column of the two shapes, called with any opening        *)
(* percentage of OpeningPercentages and any offset of Offsets.  The        *)
(* percentages are even thousandths, so that halving them is exact, as it  *)
(* is in f32.                                                              *)
(***************************************************************************)
OpeningPercentages == {0, One \div 4, Half, 3 * (One \div 4), One - 2, One}

\* offsets in [0, 1): both ends, and every edge of a door at one of
\* OpeningPercentages with its two neighbours
Offsets ==
    {0, 1, 2, 3, One - 2, One - 1}
    \cup {k * (One \div 8) + e : k \in 1..7, e \in {-1, 0, 1}}

InitDoor ==
    /\ door_call = NoDoor
    /\ frame = NoFrame
    /\ weapon = NoWeapon
    /\ StateIdle
    /\ map = <<>>
    /\ actions = <<>>
    /\ frames = 0
    /\ view = <<>>
    /\ points = <<>>
    /\ calls = 0

CallLateralDoorColumn ==
    /\ \E opening_percentage \in OpeningPercentages, offset \in Offsets :
        door_call' = [asked |-> TRUE, openable |-> "Lateral",
                      opening_percentage |-> opening_percentage, offset |-> offset,
                      column |-> LateralDoor_door_column(opening_percentage, offset)]
    /\ UNCHANGED <<state, history, map, actions, frames, view, points, calls, frame, weapon>>

CallCentralDoorColumn ==
    /\ \E opening_percentage \in OpeningPercentages, offset \in Offsets :
        door_call' = [asked |-> TRUE, openable |-> "Central",
                      opening_percentage |-> opening_percentage, offset |-> offset,
                      column |-> CentralDoor_door_column(opening_percentage, offset)]
    /\ UNCHANGED <<state, history, map, actions, frames, view, points, calls, frame, weapon>>

NextDoor == CallLateralDoorColumn \/ CallCentralDoorColumn

SpecDoor == InitDoor /\ [][NextDoor]_vars

\* C12: at opening percentage 1.0 door_column of both shapes returns None for
\* every offset in [0, 1), offset 0 included.
C12_FullyOpenInvisible ==
    (door_call.asked /\ door_call.opening_percentage = One) => door_call.column = None

\* C13: at opening percentage 0.0 door_column of both shapes returns
\* Some(offset) for every offset in [0, 1).
C13_ClosedIsIdentity ==
    (door_call.asked /\ door_call.opening_percentage = 0)
        => door_call.column = Some(door_call.offset)

\* C13 witness: a closed central door was asked for its middle column.
C13_Witness ==
    /\ door_call.asked
    /\ door_call.openable = "Central"
    /\ door_call.opening_percentage = 0
    /\ door_call.offset = Half
    /\ door_call.column = Some(Half)

\* C14: a lateral door at percentage p returns None when offset > 1 - p and
\* Some(offset + p) otherwise.
C14_Lateral ==
    (door_call.asked /\ door_call.openable = "Lateral") =>
        IF door_call.offset > One - door_call.opening_percentage
        THEN door_call.column = None
        ELSE door_call.column = Some(door_call.offset + door_call.opening_percentage)

\* C14 witness: a half open lateral door was asked for the column at its
\* edge, offset = 1 - p, and returned the last column of its texture.
C14_Witness ==
    /\ door_call.asked
    /\ door_call.openable = "Lateral"
    /\ door_call.opening_percentage = Half
    /\ door_call.offset = Half
    /\ door_call.column = Some(One)

\* twice the offset of a call lies left of, in, or right of the band
\* [(1 - p) / 2, 1 - (1 - p) / 2], whose ends doubled are 1 - p and 1 + p
LeftOfBand == 2 * door_call.offset < One - door_call.opening_percentage
RightOfBand == 2 * door_call.offset > One + door_call.opening_percentage
OnBandEdge ==
    \/ 2 * door_call.offset = One - door_call.opening_percentage
    \/ 2 * door_call.offset = One + door_call.opening_percentage

\* twice the column a call returned is twice its offset plus this much
ColumnIs(shift) ==
    /\ door_call.column.some
    /\ 2 * door_call.column.value = 2 * door_call.offset + shift

\* C15 as stated: a central door at percentage p returns None for every offset
\* in the closed band [(1 - p) / 2, 1 - (1 - p) / 2], Some(offset + p / 2)
\* left of the band and Some(offset - p / 2) right of it.
C15_CentralClosedBand ==
    (door_call.asked /\ door_call.openable = "Central") =>
        CASE LeftOfBand -> ColumnIs(door_call.opening_percentage)
          [] RightOfBand -> ColumnIs(-door_call.opening_percentage)
          [] OTHER -> door_call.column = None

\* C15 amended: a central door at percentage p returns None for every offset
\* strictly inside the band, Some(offset + p / 2) left of the band and at its
\* left end, Some(offset - p / 2) right of the band and at its right end.
C15_CentralOpenBand ==
    (door_call.asked /\ door_call.openable = "Central") =>
        CASE LeftOfBand \/ 2 * door_call.offset = One - door_call.opening_percentage
                -> ColumnIs(door_call.opening_percentage)
          [] RightOfBand \/ 2 * door_call.offset = One + door_call.opening_percentage
                -> ColumnIs(-door_call.opening_percentage)
          [] OTHER -> door_call.column = None

\* C15 witness: a half open central door was asked for the column at the right
\* end of its band and returned the middle column of its texture.
C15_Witness ==
    /\ door_call.asked
    /\ door_call.openable = "Central"
    /\ door_call.opening_percentage = Half
    /\ OnBandEdge
    /\ RightOfBand \/ 2 * door_call.offset = One + door_call.opening_percentage
    /\ door_call.column = Some(Half)

(***************************************************************************)
(* The Actions grid of a level                                             *)
(***************************************************************************)
Columns == 0..(map.width - 1)
Rows == 0..(map.height - 1)
InGrid(x, y) == x \in Columns /\ y \in Rows

\* project reads the grid and leaves it as it is: every grid the level goes
\* through is the grid of a state in which no result is held
GridState == ~view.asked

\* a cell of the grid holds a door that has moved
Moved(x, y) ==
    /\ paving_at(map, x, y).kind = "DYNAMIC"
    /\ state_at(actions, x, y) # paving_at(map, x, y).state_generator

\* C16: activate(x, y) replaces the state of the addressed cell by its
\* trigger() and leaves every other cell as it was; out of range, or on a cell
\* with a Nothing state, it leaves the whole grid as it was.
C16_ActivateOnlyAddressed ==
    GridState =>
        \A x \in (-1)..map.width, y \in (-1)..map.height :
            LET after == activate(actions, x, y)
            IN  /\ after.width = actions.width
                /\ after.height = actions.height
                /\ \A i \in Columns, j \in Rows :
                      (i # x \/ j # y) => state_at(after, i, j) = state_at(actions, i, j)
                /\ InGrid(x, y) => state_at(after, x, y) = trigger(state_at(actions, x, y))
                /\ (~InGrid(x, y) \/ state_at(actions, x, y).kind = "Nothing")
                      => after = actions

\* C16 witness: of two doors of a level one was activated and has opened
\* half way, the other is as it was built.
C16_Witness ==
    \E x \in Columns, y \in Rows, i \in Columns, j \in Rows :
        /\ paving_at(map, x, y).kind = "DYNAMIC"
        /\ state_at(actions, x, y).kind = "Linear"
        /\ state_at(actions, x, y).activated
        /\ state_at(actions, x, y).opening_percentage \in 1..(One - 1)
        /\ paving_at(map, i, j) = paving_at(map, x, y)
        /\ ~Moved(i, j)

\* C17: a notify_elapsed(dt) step replaces the state of every cell of the
\* grid by its elapsed(dt).
C17_ElapsedEveryCell ==
    [][frames' = frames + 1 =>
          \E microseconds \in FrameDurations :
              \A x \in Columns, y \in Rows :
                  state_at(actions', x, y) = elapsed(state_at(actions, x, y), microseconds)]_vars

\* C17 witness: in a grid that is not square, time has passed and two doors
\* have opened, one of them in a cell outside the largest square of the grid.
C17_Witness ==
    /\ map.width # map.height
    /\ frames >= 1
    /\ \E x \in Columns, y \in Rows, i \in Columns, j \in Rows :
          /\ (x >= map.height \/ y >= map.width)
          /\ <<i, j>> # <<x, y>>
          /\ activated_percentage(state_at(actions, x, y)) > 0
          /\ activated_percentage(state_at(actions, i, j)) > 0

\* C18: state_at(x, y) is Some exactly when 0 <= x < width and 0 <= y < height
\* of the map.
C18_StateAtBoundsChecked ==
    GridState =>
        \A x \in (-2)..(map.width + 1), y \in (-2)..(map.height + 1) :
            state_at(actions, x, y) # NoState
                <=> (0 <= x /\ x < map.width /\ 0 <= y /\ y < map.height)

\* C18 witness: in a grid that is not square, project read the state of a
\* door in the first column or row through state_at, and state_at refuses the
\* coordinates just outside each side.
C18_Witness ==
    /\ map.width # map.height
    /\ view.asked
    /\ \E i \in 1..Len(points) :
          /\ IsMarker(points[i])
          /\ (points[i].map_point.x = 0 \/ points[i].map_point.y = 0)
          /\ state_at(actions, points[i].map_point.x, points[i].map_point.y).kind = "Linear"
    /\ state_at(actions, map.width, 0) = NoState
    /\ state_at(actions, 0, map.height) = NoState
    /\ state_at(actions, -1, 0) = NoState
    /\ state_at(actions, 0, -1) = NoState

\* the state Actions::new gives the cell of a tile
Pristine(tile) ==
    IF tile.kind = "DYNAMIC" THEN tile.state_generator ELSE NothingActionState_new

\* C19: Actions::new(map) has one state for each cell of the map, at the
\* coordinates of the tile: a Nothing state for a SOLID or NOTHING tile, the
\* pristine state of the tile for a DYNAMIC tile (Linear: not activated,
\* percentage 0).  The grid of the level has the dimensions of the map, a
\* state_at for every DYNAMIC tile, of the kind, speed and shape the tile
\* gives it, and the tile keeps its pristine state whatever happens to the
\* state of the cell.
C19_OneStatePerCell ==
    GridState =>
        /\ Actions_new(map).width = map.width
        /\ Actions_new(map).height = map.height
        /\ actions.width = map.width
        /\ actions.height = map.height
        /\ \A x \in Columns, y \in Rows :
              LET tile == paving_at(map, x, y)
                  fresh == state_at(Actions_new(map), x, y)
                  current == state_at(actions, x, y)
              IN  /\ fresh = Pristine(tile)
                  /\ fresh.kind = "Linear" =>
                        (~fresh.activated /\ fresh.opening_percentage = 0)
                  /\ current # NoState
                  /\ current.kind = fresh.kind
                  /\ current.kind = "Linear" =>
                        /\ current.opening_speed = fresh.opening_speed
                        /\ current.openable = fresh.openable

\* C19 witness: two DYNAMIC tiles built from the same generator, in a grid
\* that is not square; the state of one has moved, the state of the other and
\* the generator have not.
C19_Witness ==
    /\ map.width # map.height
    /\ \E x \in Columns, y \in Rows, i \in Columns, j \in Rows :
          /\ Moved(x, y)
          /\ paving_at(map, i, j) = paving_at(map, x, y)
          /\ ~Moved(i, j)
          /\ state_at(Actions_new(map), x, y) = paving_at(map, x, y).state_generator

\* a cell of glass: a DYNAMIC tile whose generator is a Nothing state
IsGlass(x, y) ==
    /\ paving_at(map, x, y).kind = "DYNAMIC"
    /\ paving_at(map, x, y).state_generator.kind = "Nothing"

\* C20: a Nothing state stays a Nothing state under elapsed(dt) and
\* trigger(), its activated_percentage is 0, and the marker of a DYNAMIC tile
\* backed by a Nothing state always blocks.
C20_NothingIsInert ==
    /\ GridState => \A x \in Columns, y \in Rows :
          (IsGlass(x, y) \/ paving_at(map, x, y).kind # "DYNAMIC") =>
              LET st == state_at(actions, x, y)
              IN  /\ st = NothingActionState_new
                  /\ activated_percentage(st) = 0
                  /\ trigger(st) = NothingActionState_new
                  /\ \A microseconds \in FrameDurations :
                        elapsed(st, microseconds) = NothingActionState_new
    /\ view.asked =>
          \A i \in 1..Len(points) :
              (IsMarker(points[i]) /\ IsGlass(points[i].map_point.x, points[i].map_point.y))
                  => points[i].blocking

\* C20 witness: after two ticks of one second, which open a door fully, a ray
\* met the marker of a glass tile, and it blocks.
C20_Witness ==
    /\ view.asked
    /\ frames = MaxFrames
    /\ \E x \in Columns, y \in Rows : activated_percentage(state_at(actions, x, y)) = One
    /\ \E i \in 1..Len(points) :
          /\ IsMarker(points[i])
          /\ IsGlass(points[i].map_point.x, points[i].map_point.y)
          /\ points[i].blocking

(***************************************************************************)
(* SpecFrame: the frames of a level.  A frame first mutates the Actions    *)
(* grid on one thread (notify_elapsed, one cell after the other, then at   *)
(* most one activate), then build_walls runs one project call per column   *)
(* of the view on the thread pool and collects their results.              *)
(***************************************************************************)

\* the angles of the columns of the view: a cone around ANGLE_RIGHT
FrameColumns == <<Angle_new(2, 1), ANGLE_RIGHT, Angle_new(2, -1)>>

ColumnIdle == [status |-> "idle", seen |-> <<>>, points |-> <<>>]
ColumnPending == [status |-> "pending", seen |-> <<>>, points |-> <<>>]

\* the frame that begins on the grid a, microseconds after the last one;
\* column calls of an earlier frame that have not returned are still running
Frame_begin(a, microseconds, position, columns) ==
    [phase |-> "mutate",
     cursor |-> 0,
     activated |-> FALSE,
     microseconds |-> microseconds,
     updated |-> notify_elapsed(a, microseconds),
     position |-> position,
     columns |-> [c \in DOMAIN columns |->
                    IF columns[c].status = "pending" THEN columns[c] ELSE ColumnIdle]]

InitFrame ==
    /\ \E paving \in Levels : map = Map_new(paving)
    /\ actions = Actions_new(map)
    /\ frames = 0
    /\ \E x \in 0..(map.width - 1), y \in 0..(map.height - 1), microseconds \in FrameDurations :
        /\ paving_at(map, x, y).kind = "NOTHING"
        /\ frame = Frame_begin(actions, microseconds,
                               Position_new(x * One + Half, y * One + Half),
                               [c \in DOMAIN FrameColumns |-> ColumnIdle])
    /\ view = <<>>
    /\ points = <<>>
    /\ calls = 0
    /\ door_call = NoDoor
    /\ weapon = NoWeapon
    /\ StateIdle

\* one iteration of the loops of Actions::notify_elapsed: x outside, y inside
ElapseCell ==
    /\ frame.phase = "mutate"
    /\ frame.cursor < actions.width * actions.height
    /\ LET x == frame.cursor \div actions.height
           y == frame.cursor % actions.height
       IN  actions' = [actions EXCEPT !.paving[x][y] = elapsed(@, frame.microseconds)]
    /\ frame' = [frame EXCEPT !.cursor = @ + 1]
    /\ UNCHANGED <<state, history, map, frames, view, points, calls, door_call, weapon>>

\* the activate call the player queued, applied once notify_elapsed returned
ActivateQueued ==
    /\ frame.phase = "mutate"
    /\ frame.cursor = actions.width * actions.height
    /\ ~frame.activated
    /\ \E x \in (-1)..map.width, y \in (-1)..map.height :
        /\ actions' = activate(actions, x, y)
        /\ frame' = [frame EXCEPT !.activated = TRUE,
                                  !.updated = activate(@, x, y)]
    /\ UNCHANGED <<state, history, map, frames, view, points, calls, door_call, weapon>>

\* build_walls hands one project call per column to the thread pool
BuildWalls ==
    /\ frame.phase = "mutate"
    /\ frame.cursor = actions.width * actions.height
    /\ frame' = [frame EXCEPT !.phase = "read",
                              !.columns = [c \in DOMAIN FrameColumns |-> ColumnPending]]
    /\ UNCHANGED <<state, history, map, actions, frames, view, points, calls, door_call, weapon>>

\* a worker runs the project call of one column, in any order
ProjectColumn ==
    /\ \E c \in DOMAIN FrameColumns :
        /\ frame.columns[c].status = "pending"
        /\ frame' = [frame EXCEPT !.columns[c] =
                        [status |-> "done",
                         seen |-> actions,
                         points |-> project(frame.position, FrameColumns[c], map, actions).points]]
    /\ UNCHANGED <<state, history, map, actions, frames, view, points, calls, door_call, weapon>>

\* build_walls returning without waiting for its workers
build_walls_detached(columns) == TRUE

\* build_walls returns when collect() has gathered the result of every column
build_walls_joined(columns) ==
    \A c \in DOMAIN columns : columns[c].status = "done"

\* build_walls returns and the next frame begins
EndFrame ==
    /\ frame.phase = "read"
    /\ build_walls_joined(frame.columns)
    /\ frames < MaxFrames
    /\ \E microseconds \in FrameDurations :
        frame' = Frame_begin(actions, microseconds, frame.position, frame.columns)
    /\ frames' = frames + 1
    /\ UNCHANGED <<state, history, map, actions, view, points, calls, door_call, weapon>>

NextFrame == ElapseCell \/ ActivateQueued \/ BuildWalls \/ ProjectColumn \/ EndFrame

SpecFrame == InitFrame /\ [][NextFrame]_vars

\* C21: no mutation of the Actions grid is interleaved with the project
\* calls of the columns: while the grid is being mutated no project call is
\* running, while project calls run the grid is the fully updated grid of the
\* frame, and every project call of the frame has read that same grid and
\* returned what project returns on it
C21_PhasesSeparated ==
    /\ frame.phase = "mutate" =>
            \A c \in DOMAIN FrameColumns : frame.columns[c].status = "idle"
    /\ frame.phase = "read" =>
            /\ frame.cursor = actions.width * actions.height
            /\ actions = frame.updated
    /\ \A c \in DOMAIN FrameColumns :
            frame.columns[c].status = "done" =>
                /\ frame.columns[c].seen = frame.updated
                /\ frame.columns[c].points
                     = project(frame.position, FrameColumns[c], map, frame.updated).points

\* the second frame opened a door the first one left closed, and all three
\* columns of the second frame have returned
C21_Witness ==
    /\ frames = 1
    /\ frame.phase = "read"
    /\ frame.activated
    /\ actions # Actions_new(map)
    /\ \A c \in DOMAIN FrameColumns : frame.columns[c].status = "done"
    /\ \E c \in DOMAIN FrameColumns : Len(frame.columns[c].points) > 1

(***************************************************************************)
(* Grid-line stepping                                                      *)
(***************************************************************************)

\* the coordinates a position of the level can have along one axis: on every
\* grid line from one tile before the map to one tile behind it, and off it
RoundInputs ==
    {k * One + o : k \in (-1)..(IF map.width > map.height THEN map.width ELSE map.height),
                   o \in {0, 1, One - 1} \cup OriginOffsets}

\* a step from a position advances: projection_x leaves the x it started
\* from by at most one tile in the direction of the cosine, projection_y the y
\* in the direction of the sine, and the nearer of the two, from which the
\* next step continues, lies strictly ahead
Advances(position, angle) ==
    LET next_x_position == projection_x(position, angle)
        next_y_position == projection_y(position, angle)
        step_x == (next_x_position.x - position.x) * angle.cos_signum
        step_y == (next_y_position.y - position.y) * angle.sin_signum
        next == IF distance(position, next_x_position) < distance(position, next_y_position)
                THEN next_x_position
                ELSE next_y_position
    IN  /\ step_x > 0
        /\ step_x <= One
        /\ next_x_position.x % One = 0
        /\ step_y > 0
        /\ step_y <= One
        /\ next_y_position.y % One = 0
        /\ (next.x - position.x) * angle.dx + (next.y - position.y) * angle.dy > 0

\* C23: Position::round(n, sign) is the nearest integer strictly beyond n in
\* the direction of sign, n + sign when n is an integer; projection_x and
\* projection_y never return the coordinate they started from, and the step
\* made from the origin of a ray and from every point it reports moves
\* strictly forward along the ray
C23_SteppingAdvances ==
    /\ GridState =>
          \A n \in RoundInputs, sign \in {-1, 1} :
              /\ round(n, sign) % One = 0
              /\ (round(n, sign) - n) * sign > 0
              /\ (round(n, sign) - n) * sign <= One
              /\ n % One = 0 => round(n, sign) = n + sign * One
    /\ view.asked =>
          /\ Advances(view.position, view.angle)
          /\ \A i \in 1..Len(points) : Advances(points[i].projected_point, view.angle)

\* C23 witness: a ray going down and left reported a point that lies on a
\* vertical and on a horizontal grid line, and went on to a further point
C23_Witness ==
    /\ view.asked
    /\ view.angle.cos_signum = -1
    /\ view.angle.sin_signum = -1
    /\ Len(points) > 1
    /\ points[1].projected_point.x % One = 0
    /\ points[1].projected_point.y % One = 0

\* a point reported at a crossing of a grid line: the marker of a dynamic tile
\* or the terminal point, not the point on a door plane inside a tile
AtCrossing(p) == IsMarker(p) \/ IsTerminal(p.map_point)

\* C24: the tile fetched at a crossing is the tile the ray enters there: the
\* map_point of every point reported at a crossing is a tile the ray goes
\* through, and the point is where the ray enters that tile, in all four
\* quadrants and through grid corners
C24_FetchedTileIsEntered ==
    view.asked =>
        \A i \in 1..Len(points) :
            AtCrossing(points[i]) =>
                /\ points[i].map_point \in Ahead(view)
                /\ points[i].projected_point = EntryPoint(view, points[i].map_point)

\* C25: the list project returns holds exactly one terminal point, a point on
\* a SOLID tile or on the border around the map, and it is the last one; every
\* point before it lies on a DYNAMIC tile, whatever the doors of the level do
C25_OneTerminalLast ==
    view.asked =>
        /\ IsTerminal(points[Len(points)].map_point)
        /\ \A i \in 1..(Len(points) - 1) : Tile(points[i]).kind = "DYNAMIC"

\* C26: when the action state of a DYNAMIC tile is at exactly 1.0, no point
\* project reports on that tile blocks: its marker does not block and its
\* door is not reported
C26_FullyOpenNeverBlocks ==
    view.asked =>
        \A i \in 1..Len(points) :
            (Tile(points[i]).kind = "DYNAMIC" /\ Percentage(points[i]) = One)
                => ~points[i].blocking

(***************************************************************************)
(* SpecElapse: one Linear action state under the frame loop, which calls   *)
(* elapsed again and again for as long as the level runs and trigger at    *)
(* most MaxFrames times.  history holds the calls of elapsed made since    *)
(* the last trigger, the last two of them.                                 *)
(***************************************************************************)

\* a door that takes 125 seconds to open, and SpeedStats::new(0.5)
SlowSpeeds == {One \div 125, One \div 2}

\* the elapsed microseconds of a frame: one, a thousand, a million
TickDurations == {1, 1000, 1000000}

InitElapse ==
    /\ state \in {LinearActionState_new(s, o) : s \in SlowSpeeds, o \in Openables}
    /\ history = <<>>
    /\ LevelIdle

\* the frame loop calls elapsed
ElapseTick ==
    /\ \E microseconds \in TickDurations :
        /\ state' = elapsed(state, microseconds)
        /\ history' = Append(IF Len(history) = 2 THEN Tail(history) ELSE history,
                             [op |-> "elapsed",
                              microseconds |-> microseconds,
                              before |-> state,
                              odd |-> IF history = <<>> THEN TRUE ELSE ~Last(history).odd])
    /\ UNCHANGED <<map, actions, frames, view, points, calls, door_call, frame, weapon>>

\* the player triggers the door
TriggerDoor ==
    /\ frames < MaxFrames
    /\ state' = trigger(state)
    /\ history' = <<>>
    /\ frames' = frames + 1
    /\ UNCHANGED <<map, actions, view, points, calls, door_call, frame, weapon>>

NextElapse == ElapseTick \/ TriggerDoor

SpecElapse == InitElapse /\ [][NextElapse]_vars /\ WF_vars(ElapseTick)

\* the door is where its activated flag sends it
Settled == state.opening_percentage = (IF state.activated THEN One ELSE 0)

\* the last call of elapsed had an increment speed * dt that is not lost in
\* the precision of opening_percentage
LastEffective ==
    /\ history # <<>>
    /\ to_units(Last(history).before.opening_speed, Last(history).microseconds) > 0

\* C27 as claimed: under repeated elapsed(dt) calls with dt > 0 and no further
\* trigger, an activated Linear state with positive speed eventually reaches
\* exactly 1.0 and stays there, a state that is not activated exactly 0.0
C27_EventuallySettles == <>[]Settled

\* C27: under repeated elapsed(dt) calls with no further trigger, of which
\* again and again one has an increment large enough to change
\* opening_percentage, an activated Linear state eventually reaches exactly
\* 1.0 and stays there, a state that is not activated exactly 0.0
C27_SettlesUnderEffectiveCalls == ([]<>LastEffective) => <>[]Settled

\* C27 witness: a door reached 1.0 in one call of elapsed and stayed there in
\* the next; the closing door of the symmetric case is reached likewise
C27_Witness ==
    /\ Len(history) = 2
    /\ state.activated
    /\ history[1].before.opening_percentage < One
    /\ history[2].before.opening_percentage = One
    /\ state.opening_percentage = One
    /\ LastEffective

\* two calls of elapsed in a row, no trigger between them
Sliced == Len(history) = 2

\* what one call of elapsed over the time of the last two calls returns
Unsliced == elapsed(history[1].before, history[1].microseconds + history[2].microseconds)

\* C28 as claimed: elapsed(dt1) followed by elapsed(dt2) yields the same
\* activated flag and opening_percentage as a single elapsed(dt1 + dt2)
C28_ElapsedAdditive ==
    Sliced =>
        /\ state.activated = Unsliced.activated
        /\ state.opening_percentage = Unsliced.opening_percentage

\* C28: elapsed(dt1) followed by elapsed(dt2) yields the same activated flag
\* as a single elapsed(dt1 + dt2), and an opening_percentage that differs
\* from it by no more than the rounding of the increments, 0.001 at most
C28_ElapsedAdditiveUpToRounding ==
    Sliced =>
        /\ state.activated = Unsliced.activated
        /\ Abs(state.opening_percentage - Unsliced.opening_percentage) * One <= One

\* C28 witness: two calls in a row each moved the door, and it is not yet open
C28_Witness ==
    /\ Sliced
    /\ history[1].before.opening_percentage < history[2].before.opening_percentage
    /\ history[2].before.opening_percentage < state.opening_percentage
    /\ state.opening_percentage < One
    /\ state.opening_percentage = Unsliced.opening_percentage

\* C29: door visibility is monotone in the opening percentage: where
\* door_column returns None at an opening percentage p, it returns None at
\* every p' with p <= p' <= 1, for both shapes and every offset in [0, 1)
C29_SeeThroughStays ==
    (door_call.asked /\ door_call.column = None) =>
        \A opening_percentage \in OpeningPercentages :
            opening_percentage >= door_call.opening_percentage =>
                door_column(door_call.openable, opening_percentage, door_call.offset) = None

\* C29 witness: the middle of a central door a quarter open is see-through,
\* and so is a column of a half-open lateral door that a quarter-open one
\* still covers
C29_Witness ==
    /\ door_call.asked
    /\ door_call.column = None
    /\ \/ /\ door_call.openable = "Central"
          /\ door_call.opening_percentage = One \div 4
          /\ door_call.offset = Half
       \/ /\ door_call.openable = "Lateral"
          /\ door_call.opening_percentage = Half
          /\ door_column("Lateral", One \div 4, door_call.offset) # None

(***************************************************************************)
(* shoot.rs: the weapon and its shoot animation.  Durations are fixed      *)
(* point seconds; the texture of an AnimationStep and the damage play no   *)
(* part in the state of the animation.                                     *)
(***************************************************************************)
AnimationStep_new(duration_in_seconds) ==
    [duration_in_microseconds |-> duration_in_seconds * (MicrosPerSecond \div One)]

WeaponConfiguration_new(startup, active, recovery) ==
    [startup |-> startup, active |-> active, recovery |-> recovery]

WeaponConfiguration_state(self, elapsed_in_microseconds) ==
    IF elapsed_in_microseconds < self.startup.duration_in_microseconds
    THEN "Startup"
    ELSE IF elapsed_in_microseconds < self.startup.duration_in_microseconds
                                        + self.active.duration_in_microseconds
    THEN "Active"
    ELSE IF elapsed_in_microseconds < self.startup.duration_in_microseconds
                                        + self.active.duration_in_microseconds
                                        + self.recovery.duration_in_microseconds
    THEN "Recovery"
    ELSE "Finished"

Weapon_new(configuration) ==
    [configuration |-> configuration,
     already_hit |-> FALSE,
     elapsed_in_microseconds |-> 0]

Weapon_state(self) ==
    LET normal_state == WeaponConfiguration_state(self.configuration, self.elapsed_in_microseconds)
    IN  IF normal_state = "Active" /\ self.already_hit
        THEN "AlreadyHit"
        ELSE normal_state

\* action restarting the animation whatever its state
Weapon_action_always_restarting(self) ==
    [self EXCEPT !.already_hit = FALSE, !.elapsed_in_microseconds = 0]

Weapon_action(self) ==
    LET current_state == Weapon_state(self)
    IN  IF current_state = "Finished"
        THEN [self EXCEPT !.already_hit = FALSE, !.elapsed_in_microseconds = 0]
        ELSE self

Weapon_notify_hit(self) == [self EXCEPT !.already_hit = TRUE]

Weapon_notify_elapsed(self, microseconds) ==
    [self EXCEPT !.elapsed_in_microseconds = @ + microseconds]

(***************************************************************************)
(* SpecWeapon: one Weapon under any sequence of action, notify_hit and     *)
(* notify_elapsed calls.  Time is no longer counted once the animation has *)
(* been over for a frame; weapon holds the Weapon, the last call made on   *)
(* it and the Weapon before that call.                                     *)
(***************************************************************************)

\* build_configuration(0.1, 1.0, 1.0) and (0.1, 100.0, 1.0) of the tests
WeaponConfigurations ==
    {WeaponConfiguration_new(AnimationStep_new(One \div 10),
                             AnimationStep_new(active),
                             AnimationStep_new(One)) : active \in {One, 100 * One}}

\* the elapsed microseconds of a frame
WeaponDurations == {100000, 500000, 1000000}

InitWeapon ==
    /\ \E configuration \in WeaponConfigurations :
        weapon = [built |-> TRUE,
                  self |-> Weapon_new(configuration),
                  op |-> "new",
                  before |-> Weapon_new(configuration)]
    /\ frame = NoFrame
    /\ door_call = NoDoor
    /\ StateIdle
    /\ map = <<>>
    /\ actions = <<>>
    /\ frames = 0
    /\ view = <<>>
    /\ points = <<>>
    /\ calls = 0

CallAction ==
    /\ weapon' = [weapon EXCEPT !.self = Weapon_action(weapon.self),
                                !.op = "action",
                                !.before = weapon.self]
    /\ UNCHANGED <<state, history, map, actions, frames, view, points, calls, door_call, frame>>

CallNotifyHit ==
    /\ weapon' = [weapon EXCEPT !.self = Weapon_notify_hit(weapon.self),
                                !.op = "notify_hit",
                                !.before = weapon.self]
    /\ UNCHANGED <<state, history, map, actions, frames, view, points, calls, door_call, frame>>

CallNotifyElapsed ==
    /\ WeaponConfiguration_state(weapon.self.configuration,
                                 weapon.self.elapsed_in_microseconds - MicrosPerSecond) # "Finished"
    /\ \E microseconds \in WeaponDurations :
        weapon' = [weapon EXCEPT !.self = Weapon_notify_elapsed(weapon.self, microseconds),
                                 !.op = "notify_elapsed",
                                 !.before = weapon.self]
    /\ UNCHANGED <<state, history, map, actions, frames, view, points, calls, door_call, frame>>

NextWeapon == CallAction \/ CallNotifyHit \/ CallNotifyElapsed

SpecWeapon == InitWeapon /\ [][NextWeapon]_vars

\* C30: Weapon::action() restarts the shoot animation only from Finished:
\* called in Finished it sets the elapsed time to 0 and clears already_hit,
\* called in Startup, Active, AlreadyHit or Recovery it changes nothing
C30_ActionRestartsOnlyFromFinished ==
    weapon.op = "action" =>
        IF Weapon_state(weapon.before) = "Finished"
        THEN /\ weapon.self.elapsed_in_microseconds = 0
             /\ ~weapon.self.already_hit
             /\ weapon.self.configuration = weapon.before.configuration
        ELSE /\ Weapon_state(weapon.before) \in {"Startup", "Active", "AlreadyHit", "Recovery"}
             /\ weapon.self = weapon.before

\* C30 witness: action() was called on a finished shot that had hit, and the
\* next shot starts at 0 with no hit recorded
C30_Witness ==
    /\ weapon.op = "action"
    /\ Weapon_state(weapon.before) = "Finished"
    /\ weapon.before.already_hit
    /\ weapon.before.elapsed_in_microseconds > 0
    /\ weapon.self.elapsed_in_microseconds = 0
    /\ ~weapon.self.already_hit
    /\ Weapon_state(weapon.self) = "Startup"

====
